---- MODULE Spec2Model ----
(***************************************************************************)
(* Model of ito-rs/tools/arch_guardrails.py: the architecture guardrails   *)
(* checker.  One run of main() is a state machine over the four check      *)
(* groups and the report; the environment (cargo's answers and the two     *)
(* source trees) is fixed in the initial state and never changes.          *)
(*                                                                         *)
(* Python strings are sequences of one-character strings, so that strip,   *)
(* startswith, splitlines, str.count, the MULTILINE regex and the two      *)
(* orders used by sorted() (str order, Path order) are computed as the     *)
(* interpreter computes them.                                              *)
(***************************************************************************)
EXTENDS Integers, Sequences, FiniteSets, TLC

VARIABLES
    metadata,            \* what `cargo metadata` answers in this run
    domain_src,          \* files below ito-domain/src: rel_path -> text
    core_src,            \* files below ito-core/src: rel_path -> text
    cargo_tree,          \* what `cargo tree` answers in this run
    pc,                  \* position of main()
    edge_violations,     \* main's locals, line 225..228
    api_violations,
    core_api_violations,
    no_web_violations,
    stdout,              \* lines printed to stdout
    stderr,              \* lines printed to stderr
    exit_status          \* status of the process; NoStatus while running

env == <<metadata, domain_src, core_src, cargo_tree>>
vars == <<metadata, domain_src, core_src, cargo_tree, pc, edge_violations,
          api_violations, core_api_violations, no_web_violations, stdout,
          stderr, exit_status>>

\* no status yet: the process is running
NoStatus == -1

(***************************************************************************)
(* Bounds of the explored inputs.                                          *)
(***************************************************************************)
\* occurrences of a banned symbol a generated file holds beyond its allowance
MaxOver == 1
\* lines of a generated `cargo tree` output
MaxTreeLines == 2

(***************************************************************************)
(* Python str and pathlib.Path primitives.                                 *)
(***************************************************************************)
\* The characters in use, in code point order.
CodePoints ==
    << "\n", " ", "!", "-", ".", "/", ":", ";", "C", "a", "b", "c", "d", "e",
       "f", "g", "h", "i", "k", "l", "m", "n", "o", "p", "r", "s", "t", "u", "v",
       "w", "x", "y", "|" >>

ord(c) == CHOOSE i \in 1..Len(CodePoints) : CodePoints[i] = c

\* a < b for two str values
str_lt(a, b) ==
    \E i \in 1..Len(b) :
        /\ \A j \in 1..(i - 1) : j <= Len(a) /\ a[j] = b[j]
        /\ \/ i = Len(a) + 1
           \/ i <= Len(a) /\ ord(a[i]) < ord(b[i])

\* the k-th smallest element of a set of numbers
kth(S, k) == CHOOSE e \in S : Cardinality({x \in S : x < e}) = k - 1

\* s.split(sep): the pieces between the occurrences of the character sep
split(s, sep) ==
    LET at == {i \in 1..Len(s) : s[i] = sep}
        n == Cardinality(at)
        cut(k) == IF k = 0 THEN 0 ELSE IF k = n + 1 THEN Len(s) + 1 ELSE kth(at, k)
    IN [k \in 1..(n + 1) |-> SubSeq(s, cut(k - 1) + 1, cut(k) - 1)]

\* a < b for two Path values: the comparison of their parts
path_lt(a, b) ==
    LET pa == split(a, "/")
        pb == split(b, "/")
    IN \E i \in 1..Len(pb) :
        /\ \A j \in 1..(i - 1) : j <= Len(pa) /\ pa[j] = pb[j]
        /\ \/ i = Len(pa) + 1
           \/ i <= Len(pa) /\ str_lt(pa[i], pb[i])

\* sorted(s) under the order Less; stable, as list.sort is
sorted(s, Less(_, _)) ==
    LET rank(j) == 1 + Cardinality({k \in 1..Len(s) :
                        Less(s[k], s[j]) \/ (~Less(s[j], s[k]) /\ k < j)})
    IN [i \in 1..Len(s) |-> s[CHOOSE j \in 1..Len(s) : rank(j) = i]]

Whitespace == {" ", "\n"}

strip(s) ==
    LET keep == {i \in 1..Len(s) : s[i] \notin Whitespace} IN
    IF keep = {} THEN <<>>
    ELSE SubSeq(s, CHOOSE i \in keep : \A k \in keep : i <= k,
                   CHOOSE i \in keep : \A k \in keep : i >= k)

startswith(s, prefix) ==
    Len(s) >= Len(prefix) /\ SubSeq(s, 1, Len(prefix)) = prefix

\* s.splitlines(): the pieces between newlines, without a last empty one
splitlines(s) ==
    LET pieces == split(s, "\n")
    IN IF pieces[Len(pieces)] = <<>> THEN SubSeq(pieces, 1, Len(pieces) - 1)
       ELSE pieces

\* sep.join(lines)
join(sep, lines) ==
    LET joined[k \in 1..Len(lines)] ==
            IF k = Len(lines) THEN lines[k] ELSE lines[k] \o sep \o joined[k + 1]
    IN IF lines = <<>> THEN <<>> ELSE joined[1]

\* str.count: the non-overlapping occurrences, scanning from the left.
\* count[i] is the number found from position i on: the scan jumps to the
\* first occurrence at or after i and resumes behind it.
count_occurrences(contents, needle) ==
    LET n == Len(needle)
        found == {i \in 1..(Len(contents) - n + 1) :
                     SubSeq(contents, i, i + n - 1) = needle}
        count[i \in 1..(Len(contents) + 1)] ==
            LET ahead == {h \in found : h >= i}
            IN IF ahead = {} THEN 0 ELSE 1 + count[kth(ahead, 1) + n]
    IN count[1]
\* the same search without re.MULTILINE
search_text_start(prefix, text) == startswith(text, prefix)

\* re.search(r"^<prefix>", text, flags=re.MULTILINE) is not None
search_line_start(prefix, text) ==
    \E i \in 1..Len(text) :
        /\ i = 1 \/ text[i - 1] = "\n"
        /\ startswith(SubSeq(text, i, Len(text)), prefix)

Range(s) == {s[i] : i \in 1..Len(s)}

(***************************************************************************)
(* The policy tables.                                                      *)
(***************************************************************************)
Crates == {"ito-domain", "ito-core", "ito-cli", "ito-web"}

\* the characters of a crate name, for sorted()
CrateChars ==
    [c \in Crates |->
        CASE c = "ito-domain" -> <<"i", "t", "o", "-", "d", "o", "m", "a", "i", "n">>
          [] c = "ito-core"   -> <<"i", "t", "o", "-", "c", "o", "r", "e">>
          [] c = "ito-cli"    -> <<"i", "t", "o", "-", "c", "l", "i">>
          [] c = "ito-web"    -> <<"i", "t", "o", "-", "w", "e", "b">>]

crate_lt(a, b) == str_lt(CrateChars[a], CrateChars[b])

\* a dict literal, as its items in insertion order
FORBIDDEN_CRATE_EDGES ==
    << <<"ito-domain", {"ito-cli", "ito-web", "ito-core"}>>,
       <<"ito-core", {"ito-cli", "ito-web"}>>,
       <<"ito-cli", {"ito-domain"}>> >>

REQUIRED_CRATE_EDGES ==
    << <<"ito-core", {"ito-domain"}>>,
       <<"ito-cli", {"ito-core"}>>,
       <<"ito-web", {"ito-core"}>> >>

\* a set as a list in some order, then sorted(): the order does not matter
RECURSIVE set_list(_)
set_list(S) ==
    IF S = {} THEN <<>>
    ELSE LET e == CHOOSE x \in S : TRUE IN <<e>> \o set_list(S \ {e})

sorted_crates(S) == sorted(set_list(S), crate_lt)

(***************************************************************************)
(* check_crate_edges, on the graph `packages` (name -> dependency names).  *)
(***************************************************************************)
missing_crate(c) == [kind |-> "missing workspace crate", crate |-> c]
forbidden_edge(s, t) ==
    [kind |-> "forbidden dependency edge", source |-> s, target |-> t]
missing_edge(s, t) ==
    [kind |-> "missing required dependency edge", source |-> s, target |-> t]
\* the loop leaving at the first forbidden edge it finds
forbidden_targets_first(source_crate, dep_names, targets) ==
    LET hit == {i \in 1..Len(targets) : targets[i] \in dep_names}
    IN IF hit = {} THEN <<>>
       ELSE <<forbidden_edge(source_crate, targets[kth(hit, 1)])>>

RECURSIVE forbidden_targets_loop(_, _, _)
forbidden_targets_loop(source_crate, dep_names, targets) ==
    IF targets = <<>> THEN <<>>
    ELSE (IF Head(targets) \in dep_names
          THEN <<forbidden_edge(source_crate, Head(targets))>>
          ELSE <<>>)
         \o forbidden_targets_loop(source_crate, dep_names, Tail(targets))

RECURSIVE required_targets_loop(_, _, _)
required_targets_loop(source_crate, dep_names, targets) ==
    IF targets = <<>> THEN <<>>
    ELSE (IF Head(targets) \notin dep_names
          THEN <<missing_edge(source_crate, Head(targets))>>
          ELSE <<>>)
         \o required_targets_loop(source_crate, dep_names, Tail(targets))
\* the pass leaving at the first missing crate
RECURSIVE forbidden_pass_break(_, _)
forbidden_pass_break(packages, rules) ==
    IF rules = <<>> THEN <<>>
    ELSE LET source_crate == Head(rules)[1]
             forbidden_targets == Head(rules)[2]
         IN IF source_crate \notin DOMAIN packages
            THEN <<missing_crate(source_crate)>>
            ELSE forbidden_targets_loop(source_crate, packages[source_crate],
                                        sorted_crates(forbidden_targets))
                 \o forbidden_pass_break(packages, Tail(rules))

RECURSIVE forbidden_pass(_, _)
forbidden_pass(packages, rules) ==
    IF rules = <<>> THEN <<>>
    ELSE LET source_crate == Head(rules)[1]
             forbidden_targets == Head(rules)[2]
         IN (IF source_crate \notin DOMAIN packages
             THEN <<missing_crate(source_crate)>>
             ELSE forbidden_targets_loop(source_crate, packages[source_crate],
                                         sorted_crates(forbidden_targets)))
            \o forbidden_pass(packages, Tail(rules))
\* the pass skipping a missing crate without a word
RECURSIVE required_pass_silent(_, _)
required_pass_silent(packages, rules) ==
    IF rules = <<>> THEN <<>>
    ELSE LET source_crate == Head(rules)[1]
             required_targets == Head(rules)[2]
         IN (IF source_crate \notin DOMAIN packages
             THEN <<>>
             ELSE required_targets_loop(source_crate, packages[source_crate],
                                        sorted_crates(required_targets)))
            \o required_pass_silent(packages, Tail(rules))

RECURSIVE required_pass(_, _)
required_pass(packages, rules) ==
    IF rules = <<>> THEN <<>>
    ELSE LET source_crate == Head(rules)[1]
             required_targets == Head(rules)[2]
         IN (IF source_crate \notin DOMAIN packages
             THEN <<missing_crate(source_crate)>>
             ELSE required_targets_loop(source_crate, packages[source_crate],
                                        sorted_crates(required_targets)))
            \o required_pass(packages, Tail(rules))

check_crate_edges(packages) ==
    forbidden_pass(packages, FORBIDDEN_CRATE_EDGES)
    \o required_pass(packages, REQUIRED_CRATE_EDGES)

(***************************************************************************)
(* The API-ban tables and the paths they name.  A path is the str          *)
(* path.relative_to(REPO_ROOT).as_posix().                                 *)
(***************************************************************************)
\* "miette::"
SYM_MIETTE ==
    <<"m", "i", "e", "t", "t", "e", ":", ":">>

\* "std::fs"
SYM_STD_FS ==
    <<"s", "t", "d", ":", ":", "f", "s">>

\* "std::process::Command"
SYM_COMMAND ==
    <<"s", "t", "d", ":", ":", "p", "r", "o", "c", "e", "s", "s", ":",
      ":", "C", "o", "m", "m", "a", "n", "d">>

\* "miette!"
SYM_MIETTE_MACRO ==
    <<"m", "i", "e", "t", "t", "e", "!">>

\* "ito-rs/crates/ito-domain/src/"
DOMAIN_SRC ==
    <<"i", "t", "o", "-", "r", "s", "/", "c", "r", "a", "t", "e", "s",
      "/", "i", "t", "o", "-", "d", "o", "m", "a", "i", "n", "/",
      "s", "r", "c", "/">>

\* "ito-rs/crates/ito-core/src/"
CORE_SRC ==
    <<"i", "t", "o", "-", "r", "s", "/", "c", "r", "a", "t", "e", "s",
      "/", "i", "t", "o", "-", "c", "o", "r", "e", "/", "s", "r",
      "c", "/">>

\* "discovery.rs"
DISCOVERY_RS ==
    <<"d", "i", "s", "c", "o", "v", "e", "r", "y", ".", "r", "s">>

\* "errors.rs"
ERRORS_RS ==
    <<"e", "r", "r", "o", "r", "s", ".", "r", "s">>

\* "errors/mod.rs"
ERRORS_MOD_RS ==
    <<"e", "r", "r", "o", "r", "s", "/", "m", "o", "d", ".", "r", "s">>

\* "harness.rs"
HARNESS_RS ==
    <<"h", "a", "r", "n", "e", "s", "s", ".", "r", "s">>

\* "harness/types.rs"
HARNESS_TYPES_RS ==
    <<"h", "a", "r", "n", "e", "s", "s", "/", "t", "y", "p", "e", "s",
      ".", "r", "s">>

\* "harness/opencode.rs"
HARNESS_OPENCODE_RS ==
    <<"h", "a", "r", "n", "e", "s", "s", "/", "o", "p", "e", "n", "c",
      "o", "d", "e", ".", "r", "s">>

\* "harness/stub.rs"
HARNESS_STUB_RS ==
    <<"h", "a", "r", "n", "e", "s", "s", "/", "s", "t", "u", "b", ".",
      "r", "s">>

rel(root, name) == root \o name

\* symbol, then its baseline dict (rel_path -> allowed count), in dict order
DOMAIN_API_BASELINE ==
    << <<SYM_MIETTE, <<>> >>,
       <<SYM_STD_FS, [p \in {rel(DOMAIN_SRC, DISCOVERY_RS)} |-> 9]>>,
       <<SYM_COMMAND, <<>> >> >>

CORE_API_BASELINE ==
    << <<SYM_MIETTE,
         [p \in {rel(CORE_SRC, HARNESS_TYPES_RS), rel(CORE_SRC, HARNESS_OPENCODE_RS),
                 rel(CORE_SRC, HARNESS_STUB_RS)} |->
            IF p = rel(CORE_SRC, HARNESS_TYPES_RS) THEN 1
            ELSE IF p = rel(CORE_SRC, HARNESS_OPENCODE_RS) THEN 3 ELSE 4]>>,
       <<SYM_MIETTE_MACRO,
         [p \in {rel(CORE_SRC, HARNESS_OPENCODE_RS), rel(CORE_SRC, HARNESS_STUB_RS)} |->
            IF p = rel(CORE_SRC, HARNESS_OPENCODE_RS) THEN 2 ELSE 3]>> >>

(***************************************************************************)
(* check_domain_api_bans and check_core_api_bans.  A tree is a function    *)
(* rel_path -> text; `listing` is the order in which rglob yields the      *)
(* files.  A dict is the sequence of its items in insertion order.         *)
(***************************************************************************)
new_usage(symbol, rel_path, count) ==
    [kind |-> "new usage", symbol |-> symbol, rel_path |-> rel_path,
     count |-> count]
increased_usage(symbol, rel_path, count, allowed) ==
    [kind |-> "increased usage", symbol |-> symbol, rel_path |-> rel_path,
     count |-> count, allowed |-> allowed]

\* the files of the explored trees
DomainFiles ==
    {rel(DOMAIN_SRC, DISCOVERY_RS), rel(DOMAIN_SRC, ERRORS_RS),
     rel(DOMAIN_SRC, ERRORS_MOD_RS)}

CoreFiles == {rel(CORE_SRC, HARNESS_RS), rel(CORE_SRC, HARNESS_TYPES_RS)}

\* the two orders on these files, computed once: Path order and str order
PathOrder ==
    UNION {IF path_lt(a, b) THEN {<<a, b>>} ELSE {} :
           a \in DomainFiles \cup CoreFiles, b \in DomainFiles \cup CoreFiles}

StrOrder ==
    UNION {IF str_lt(a, b) THEN {<<a, b>>} ELSE {} :
           a \in DomainFiles \cup CoreFiles, b \in DomainFiles \cup CoreFiles}

path_before(a, b) == <<a, b>> \in PathOrder

\* (rel_path, count) tuples compare by rel_path, then by count
item_lt(a, b) == <<a[1], b[1]>> \in StrOrder \/ (a[1] = b[1] /\ a[2] < b[2])

sorted_paths(listing) == sorted(listing, path_before)
\* actual_counts.items() without sorted()
sorted_items_not(actual_counts) == actual_counts

sorted_items(actual_counts) == sorted(actual_counts, item_lt)

\* the text the ito-core scan counts in: the lines that are no doc comment
non_doc_text(contents) ==
    join(<<"\n">>,
         SelectSeq(splitlines(contents),
                   LAMBDA line : ~startswith(strip(line), <<"/", "/", "/">>)))

domain_count(contents, symbol) == count_occurrences(contents, symbol)
\* the count over the whole text, doc comments included
core_count_raw(contents, symbol) == count_occurrences(contents, symbol)

core_count(contents, symbol) ==
    count_occurrences(non_doc_text(contents), symbol)

RECURSIVE domain_actual_counts(_, _, _)
domain_actual_counts(tree, paths, symbol) ==
    IF paths = <<>> THEN <<>>
    ELSE LET rel_path == Head(paths)
             count == domain_count(tree[rel_path], symbol)
         IN (IF count > 0 THEN << <<rel_path, count>> >> ELSE <<>>)
            \o domain_actual_counts(tree, Tail(paths), symbol)

RECURSIVE core_actual_counts(_, _, _)
core_actual_counts(tree, paths, symbol) ==
    IF paths = <<>> THEN <<>>
    ELSE LET rel_path == Head(paths)
             count == core_count(tree[rel_path], symbol)
         IN (IF count > 0 THEN << <<rel_path, count>> >> ELSE <<>>)
            \o core_actual_counts(tree, Tail(paths), symbol)
\* the loop with >= for >
RECURSIVE baseline_loop_ge(_, _, _)
baseline_loop_ge(symbol, baseline, items) ==
    IF items = <<>> THEN <<>>
    ELSE LET rel_path == Head(items)[1]
             count == Head(items)[2]
         IN (IF rel_path \notin DOMAIN baseline
             THEN <<new_usage(symbol, rel_path, count)>>
             ELSE IF count >= baseline[rel_path]
                  THEN <<increased_usage(symbol, rel_path, count,
                                         baseline[rel_path])>>
                  ELSE <<>>)
            \o baseline_loop_ge(symbol, baseline, Tail(items))

\* the loop over sorted(actual_counts.items()), the same in both scans
RECURSIVE baseline_loop(_, _, _)
baseline_loop(symbol, baseline, items) ==
    IF items = <<>> THEN <<>>
    ELSE LET rel_path == Head(items)[1]
             count == Head(items)[2]
         IN (IF rel_path \notin DOMAIN baseline   \* baseline.get is None
             THEN <<new_usage(symbol, rel_path, count)>>
             ELSE IF count > baseline[rel_path]
                  THEN <<increased_usage(symbol, rel_path, count,
                                         baseline[rel_path])>>
                  ELSE <<>>)
            \o baseline_loop(symbol, baseline, Tail(items))

RECURSIVE domain_symbols_loop(_, _, _)
domain_symbols_loop(tree, listing, table) ==
    IF table = <<>> THEN <<>>
    ELSE LET symbol == Head(table)[1]
             baseline == Head(table)[2]
             actual_counts ==
                 domain_actual_counts(tree, sorted_paths(listing), symbol)
         IN baseline_loop(symbol, baseline, sorted_items(actual_counts))
            \o domain_symbols_loop(tree, listing, Tail(table))

RECURSIVE core_symbols_loop(_, _, _)
core_symbols_loop(tree, listing, table) ==
    IF table = <<>> THEN <<>>
    ELSE LET symbol == Head(table)[1]
             baseline == Head(table)[2]
             actual_counts ==
                 core_actual_counts(tree, sorted_paths(listing), symbol)
         IN baseline_loop(symbol, baseline, sorted_items(actual_counts))
            \o core_symbols_loop(tree, listing, Tail(table))

check_domain_api_bans(tree, listing) ==
    domain_symbols_loop(tree, listing, DOMAIN_API_BASELINE)

check_core_api_bans(tree, listing) ==
    core_symbols_loop(tree, listing, CORE_API_BASELINE)

\* the orders in which rglob can yield the files of a tree
Listings(tree) ==
    {l \in [1..Cardinality(DOMAIN tree) -> DOMAIN tree] :
        \A i, j \in DOMAIN l : i # j => l[i] # l[j]}

(***************************************************************************)
(* check_cli_no_default_features_web_decoupling, on what subprocess.run    *)
(* gave: the stdout of an exit 0, or the stderr of a CalledProcessError.   *)
(***************************************************************************)
ITO_WEB_V == <<"i", "t", "o", "-", "w", "e", "b", " ", "v">>

\* "cargo tree command failed"
TREE_FAILED ==
    <<"c", "a", "r", "g", "o", " ", "t", "r", "e", "e", " ", "c", "o", "m",
      "m", "a", "n", "d", " ", "f", "a", "i", "l", "e", "d">>

unable_to_verify(details) ==
    [kind |-> "unable to verify ito-cli no-default-features dependency tree",
     details |-> details]
still_pulls ==
    [kind |-> "ito-cli --no-default-features still pulls ito-web in dependency tree"]

check_cli_no_default_features_web_decoupling(completed) ==
    IF completed.kind = "CalledProcessError"
    THEN LET stderr_text == strip(completed.stderr)
             details == IF stderr_text # <<>> THEN stderr_text ELSE TREE_FAILED
         IN <<unable_to_verify(details)>>
    ELSE IF search_line_start(ITO_WEB_V, completed.stdout)
         THEN <<still_pulls>>
         ELSE <<>>

(***************************************************************************)
(* report and main.                                                        *)
(***************************************************************************)
GROUP_EDGES == "crate edge rules"
GROUP_DOMAIN == "ito-domain API bans"
GROUP_CORE == "ito-core API bans"
GROUP_NO_WEB == "ito-cli no-default-features decoupling"

PASSED == [tag |-> "Architecture guardrails passed."]

\* the lines report() prints
report(group_name, violations) ==
    IF violations = <<>> THEN <<[tag |-> "OK", group |-> group_name]>>
    ELSE <<[tag |-> "FAIL", group |-> group_name]>>
         \o [i \in 1..Len(violations) |->
                [tag |-> "  - ", violation |-> violations[i]]]

\* run_cargo_metadata returns: check_crate_edges runs on the packages
CheckCrateEdges ==
    /\ pc = "check_crate_edges"
    /\ metadata.kind = "ok"
    /\ edge_violations' = check_crate_edges(metadata.packages)
    /\ pc' = "check_domain_api_bans"
    /\ UNCHANGED <<env, api_violations, core_api_violations,
                   no_web_violations, stdout, stderr, exit_status>>

\* run_cargo_metadata catches CalledProcessError and raises SystemExit(1)
MetadataCalledProcessError ==
    /\ pc = "check_crate_edges"
    /\ metadata.kind = "CalledProcessError"
    /\ stderr' = stderr \o <<[tag |-> "FAIL: unable to run cargo metadata"],
                            [tag |-> "text", text |-> metadata.stderr]>>
    /\ exit_status' = 1
    /\ pc' = "exited"
    /\ UNCHANGED <<env, edge_violations, api_violations, core_api_violations,
                   no_web_violations, stdout>>

\* any other exception of run_cargo_metadata is caught nowhere: the
\* interpreter prints the traceback and exits with status 1
MetadataUncaught ==
    /\ pc = "check_crate_edges"
    /\ metadata.kind \in {"FileNotFoundError", "JSONDecodeError"}
    /\ stderr' = stderr \o <<[tag |-> "Traceback", exception |-> metadata.kind]>>
    /\ exit_status' = 1
    /\ pc' = "exited"
    /\ UNCHANGED <<env, edge_violations, api_violations, core_api_violations,
                   no_web_violations, stdout>>

CheckDomainApiBans ==
    /\ pc = "check_domain_api_bans"
    /\ \E listing \in Listings(domain_src) :
          api_violations' = check_domain_api_bans(domain_src, listing)
    /\ pc' = "check_core_api_bans"
    /\ UNCHANGED <<env, edge_violations, core_api_violations,
                   no_web_violations, stdout, stderr, exit_status>>

CheckCoreApiBans ==
    /\ pc = "check_core_api_bans"
    /\ \E listing \in Listings(core_src) :
          core_api_violations' = check_core_api_bans(core_src, listing)
    /\ pc' = "check_cli_no_default_features_web_decoupling"
    /\ UNCHANGED <<env, edge_violations, api_violations, no_web_violations,
                   stdout, stderr, exit_status>>

CheckCliNoDefaultFeatures ==
    /\ pc = "check_cli_no_default_features_web_decoupling"
    /\ no_web_violations' =
          check_cli_no_default_features_web_decoupling(cargo_tree)
    /\ pc' = "report_edges"
    /\ UNCHANGED <<env, edge_violations, api_violations, core_api_violations,
                   stdout, stderr, exit_status>>

Report(at, group_name, violations, next) ==
    /\ pc = at
    /\ stdout' = stdout \o report(group_name, violations)
    /\ pc' = next
    /\ UNCHANGED <<env, edge_violations, api_violations, core_api_violations,
                   no_web_violations, stderr, exit_status>>
\* the report stopping at the first failing group
ReportEdges_stop ==
    Report("report_edges", GROUP_EDGES, edge_violations,
           IF edge_violations # <<>> THEN "return" ELSE "report_domain")

ReportEdges ==
    Report("report_edges", GROUP_EDGES, edge_violations, "report_domain")
ReportDomain ==
    Report("report_domain", GROUP_DOMAIN, api_violations, "report_core")
ReportCore ==
    Report("report_core", GROUP_CORE, core_api_violations, "report_no_web")
ReportNoWeb ==
    Report("report_no_web", GROUP_NO_WEB, no_web_violations, "return")
\* main with the last group left out of the test
main_status_three(edge, api, core_api, no_web) ==
    IF edge # <<>> \/ api # <<>> \/ core_api # <<>> THEN 1 ELSE 0

\* the status main returns
main_status(edge, api, core_api, no_web) ==
    IF edge # <<>> \/ api # <<>> \/ core_api # <<>> \/ no_web # <<>>
    THEN 1 ELSE 0

Return ==
    /\ pc = "return"
    /\ exit_status' = main_status(edge_violations, api_violations,
                                  core_api_violations, no_web_violations)
    /\ stdout' = IF exit_status' = 0 THEN stdout \o <<PASSED>> ELSE stdout
    /\ pc' = "exited"
    /\ UNCHANGED <<env, edge_violations, api_violations, core_api_violations,
                   no_web_violations, stderr>>

Next ==
    \/ CheckCrateEdges
    \/ MetadataCalledProcessError
    \/ MetadataUncaught
    \/ CheckDomainApiBans
    \/ CheckCoreApiBans
    \/ CheckCliNoDefaultFeatures
    \/ ReportEdges
    \/ ReportDomain
    \/ ReportCore
    \/ ReportNoWeb
    \/ Return

(***************************************************************************)
(* The environments explored.                                              *)
(***************************************************************************)
\* packages of `cargo metadata --no-deps`: name -> names of its dependencies
Graphs ==
    UNION {{g \in [P -> SUBSET Crates] : \A p \in P : p \notin g[p]} :
           P \in SUBSET Crates}

CleanGraph ==
    [c \in Crates |->
        CASE c = "ito-domain" -> {}
          [] c = "ito-core"   -> {"ito-domain"}
          [] c = "ito-cli"    -> {"ito-core"}
          [] c = "ito-web"    -> {"ito-core"}]

SampleGraphs ==
    {CleanGraph,
     [CleanGraph EXCEPT !["ito-cli"] = {"ito-core", "ito-domain"}],
     [c \in Crates \ {"ito-web"} |-> CleanGraph[c]]}

ERROR_TEXT == <<"e", "r", "r", "o", "r", ":", " ", "x", "\n">>

MetadataResults(graphs) ==
    {[kind |-> "ok", packages |-> g] : g \in graphs}
    \cup {[kind |-> "CalledProcessError", stderr |-> ERROR_TEXT],
          [kind |-> "FileNotFoundError"],
          [kind |-> "JSONDecodeError"]}

RECURSIVE repeat(_, _)
repeat(line, n) == IF n = 0 THEN <<>> ELSE <<line>> \o repeat(line, n - 1)

\* a text: every line ended by a newline
RECURSIVE file_text(_)
file_text(lines) ==
    IF lines = <<>> THEN <<>>
    ELSE Head(lines) \o <<"\n">> \o file_text(Tail(lines))

code_line(symbol) == <<"u", "s", "e", " ">> \o symbol \o <<";">>

comment_line(style, symbol) ==
    CASE style = "none"     -> <<>>
      [] style = "doc"      -> << <<"/", "/", "/", " ">> \o symbol >>
      [] style = "indented" -> << <<" ", " ", "/", "/", "/", " ">> \o symbol >>
      [] style = "trailing" ->
             << <<"x", ";", " ", "/", "/", "/", " ">> \o symbol >>

\* a source file: an optional line of `style` naming the symbol, then
\* n lines of code using it
source_text(symbol, n, style) ==
    file_text(comment_line(style, symbol) \o repeat(code_line(symbol), n))

\* the most a baseline of `table` allows rel_path of a symbol found in `used`
allowance(table, used, rel_path) ==
    LET given == {table[i][2][rel_path] :
                    i \in {k \in 1..Len(table) :
                              /\ rel_path \in DOMAIN table[k][2]
                              /\ count_occurrences(used, table[k][1]) > 0}}
    IN IF given = {} THEN 0 ELSE CHOOSE a \in given : \A b \in given : a >= b

\* the texts of a file: up to MaxOver uses more than its baseline allows
Texts(table, symbols, styles, rel_path) ==
    UNION {{source_text(symbol, n, style) :
               n \in 0..(MaxOver + allowance(table, symbol, rel_path)),
               style \in styles} : symbol \in symbols}

DomainTexts(rel_path) ==
    Texts(DOMAIN_API_BASELINE, {SYM_MIETTE, SYM_STD_FS, SYM_COMMAND},
          {"none", "doc"}, rel_path)

CoreTexts(rel_path) ==
    Texts(CORE_API_BASELINE,
          {SYM_MIETTE, SYM_MIETTE_MACRO, SYM_MIETTE \o SYM_MIETTE_MACRO},
          {"none", "doc", "indented", "trailing"}, rel_path)

\* the trees holding some of the files of `texts`, each with one of its texts
RECURSIVE Trees(_)
Trees(texts) ==
    IF DOMAIN texts = {} THEN {<<>>}
    ELSE LET p == CHOOSE q \in DOMAIN texts : TRUE
             rest == Trees([q \in DOMAIN texts \ {p} |-> texts[q]])
         IN rest \cup {t @@ (p :> x) : t \in rest, x \in texts[p]}

DomainTrees == Trees([p \in DomainFiles |-> DomainTexts(p)])
CoreTrees == Trees([p \in CoreFiles |-> CoreTexts(p)])

EmptyTree == <<>>

\* trees whose only use of a symbol is on a doc comment line
DocOnlyDomainTree ==
    [p \in {rel(DOMAIN_SRC, ERRORS_RS)} |-> source_text(SYM_STD_FS, 0, "doc")]
DocOnlyCoreTree ==
    [p \in {rel(CORE_SRC, HARNESS_RS)} |-> source_text(SYM_MIETTE, 0, "indented")]

SampleDomainTrees ==
    {EmptyTree,
     [p \in {rel(DOMAIN_SRC, ERRORS_RS)} |-> source_text(SYM_STD_FS, 1, "none")],
     DocOnlyDomainTree}

SampleCoreTrees ==
    {EmptyTree,
     [p \in {rel(CORE_SRC, HARNESS_RS)} |-> source_text(SYM_MIETTE, 1, "none")],
     DocOnlyCoreTree}

TreeLines ==
    {<<"i", "t", "o", "-", "c", "l", "i", " ", "v", "1">>,
     <<"i", "t", "o", "-", "w", "e", "b", " ", "v", "1">>,
     <<"|", "-", "-", " ", "i", "t", "o", "-", "w", "e", "b", " ", "v", "1">>,
     <<"i", "t", "o", "-", "w", "e", "b", "x", " ", "v", "1">>}

TreeResults ==
    {[kind |-> "ok", stdout |-> file_text(lines)] :
        lines \in UNION {[1..n -> TreeLines] : n \in 0..MaxTreeLines}}
    \cup {[kind |-> "CalledProcessError", stderr |-> text] :
            text \in {<<>>, <<" ", "\n">>, ERROR_TEXT}}

CleanTreeResult ==
    [kind |-> "ok", stdout |-> file_text(<< <<"i", "t", "o", "-", "c", "l", "i", " ", "v", "1">> >>)]

InitWith(graphs, domain_trees, core_trees, tree_results) ==
    /\ metadata \in MetadataResults(graphs)
    /\ domain_src \in domain_trees
    /\ core_src \in core_trees
    /\ cargo_tree \in tree_results
    /\ pc = "check_crate_edges"
    /\ edge_violations = <<>>
    /\ api_violations = <<>>
    /\ core_api_violations = <<>>
    /\ no_web_violations = <<>>
    /\ stdout = <<>>
    /\ stderr = <<>>
    /\ exit_status = NoStatus

\* the driver, over a few graphs and trees and every answer of cargo tree
Init == InitWith(SampleGraphs, SampleDomainTrees, SampleCoreTrees, TreeResults)
Spec == Init /\ [][Next]_vars

\* every graph over the four crates
InitEdges ==
    InitWith(Graphs, {EmptyTree}, {EmptyTree}, {CleanTreeResult})
SpecEdges == InitEdges /\ [][Next]_vars

\* every generated tree of one scan, beside a few of the other
InitScan ==
    \/ InitWith({CleanGraph}, DomainTrees, {DocOnlyCoreTree}, {CleanTreeResult})
    \/ InitWith({CleanGraph}, {DocOnlyDomainTree}, CoreTrees, {CleanTreeResult})
SpecScan == InitScan /\ [][Next]_vars

(***************************************************************************)
(* Properties.                                                             *)
(***************************************************************************)
Complete == pc = "exited" /\ metadata.kind = "ok"

\* how often v is in the list
Occurs(v, list) == Cardinality({i \in 1..Len(list) : list[i] = v})

\* the "OK: <name>" and "FAIL: <name>" lines printed
GroupLines == SelectSeq(stdout, LAMBDA line : line.tag \in {"OK", "FAIL"})

\* C1: a complete run of main() ends with status 0 if all four check groups
\* gave an empty violation list and with status 1 otherwise; no other status
\* is returned, and none before the run ends.
C1_ExitStatus ==
    /\ Complete =>
          /\ exit_status \in {0, 1}
          /\ exit_status = 0 <=>
                /\ edge_violations = <<>>
                /\ api_violations = <<>>
                /\ core_api_violations = <<>>
                /\ no_web_violations = <<>>
    /\ pc # "exited" => exit_status = NoStatus

C1_Witness ==
    /\ Complete
    /\ exit_status = 1
    /\ edge_violations = <<>> /\ api_violations = <<>>
    /\ core_api_violations = <<>> /\ no_web_violations # <<>>

\* what a complete run has done: every group evaluated on its input, and
\* one OK or FAIL line per group, in the order of main
AllGroupsReported ==
    Complete =>
          /\ edge_violations = check_crate_edges(metadata.packages)
          /\ \E listing \in Listings(domain_src) :
                api_violations = check_domain_api_bans(domain_src, listing)
          /\ \E listing \in Listings(core_src) :
                core_api_violations = check_core_api_bans(core_src, listing)
          /\ no_web_violations =
                check_cli_no_default_features_web_decoupling(cargo_tree)
          /\ Len(GroupLines) = 4
          /\ GroupLines[1].group = GROUP_EDGES
          /\ GroupLines[2].group = GROUP_DOMAIN
          /\ GroupLines[3].group = GROUP_CORE
          /\ GroupLines[4].group = GROUP_NO_WEB
          /\ GroupLines[1].tag = "FAIL" <=> edge_violations # <<>>
          /\ GroupLines[2].tag = "FAIL" <=> api_violations # <<>>
          /\ GroupLines[3].tag = "FAIL" <=> core_api_violations # <<>>
          /\ GroupLines[4].tag = "FAIL" <=> no_web_violations # <<>>

\* the positions of main from which one of its steps is taken
Running ==
    {"check_crate_edges", "check_domain_api_bans", "check_core_api_bans",
     "check_cli_no_default_features_web_decoupling", "report_edges",
     "report_domain", "report_core", "report_no_web", "return"}

\* C2: when the metadata provider succeeds the run stops nowhere before its
\* end, every group is evaluated on its input, and exactly one OK or FAIL
\* line is printed per group, in the order edge rules, ito-domain API bans,
\* ito-core API bans, isolation check, whichever groups found violations.
C2_AllGroupsReported ==
    /\ metadata.kind = "ok" => pc \in Running \cup {"exited"}
    /\ metadata.kind = "ok" /\ pc \in Running => exit_status = NoStatus
    /\ AllGroupsReported

C2_Witness ==
    /\ Complete
    /\ edge_violations # <<>> /\ api_violations = <<>>
    /\ core_api_violations # <<>> /\ no_web_violations = <<>>
    /\ Len(GroupLines) = 4

\* the targets the table gives a source crate
targets_of(table, s) ==
    UNION {table[i][2] : i \in {k \in 1..Len(table) : table[k][1] = s}}

\* the rules of both tables that have the source crate s
rules_of(s) ==
    Cardinality({k \in 1..Len(FORBIDDEN_CRATE_EDGES) :
                    FORBIDDEN_CRATE_EDGES[k][1] = s})
    + Cardinality({k \in 1..Len(REQUIRED_CRATE_EDGES) :
                      REQUIRED_CRATE_EDGES[k][1] = s})

EdgesChecked == metadata.kind = "ok" /\ pc # "check_crate_edges"

\* C3: for every graph and every rule whose source s is in the graph, the
\* list holds "forbidden dependency edge: s -> t" once for exactly the
\* forbidden targets t among s's dependencies, and "missing required
\* dependency edge: s -> t" once for exactly the required targets t not
\* among them; all of them are collected.
C3_EdgeViolationsExact ==
    EdgesChecked =>
        \A s \in DOMAIN metadata.packages : \A t \in Crates :
            /\ Occurs(forbidden_edge(s, t), edge_violations) =
                  IF /\ t \in targets_of(FORBIDDEN_CRATE_EDGES, s)
                     /\ t \in metadata.packages[s]
                  THEN 1 ELSE 0
            /\ Occurs(missing_edge(s, t), edge_violations) =
                  IF /\ t \in targets_of(REQUIRED_CRATE_EDGES, s)
                     /\ t \notin metadata.packages[s]
                  THEN 1 ELSE 0

C3_Witness ==
    /\ EdgesChecked
    /\ DOMAIN metadata.packages = Crates
    /\ Occurs(forbidden_edge("ito-domain", "ito-cli"), edge_violations) = 1
    /\ Occurs(forbidden_edge("ito-domain", "ito-web"), edge_violations) = 1
    /\ Occurs(forbidden_edge("ito-cli", "ito-domain"), edge_violations) = 1
    /\ Occurs(missing_edge("ito-web", "ito-core"), edge_violations) = 1

\* C4: a rule whose source crate is not in the graph gives exactly one
\* "missing workspace crate" violation and nothing else, and the rules after
\* it are evaluated all the same.
C4_MissingCrate ==
    EdgesChecked =>
        /\ \A s \in Crates :
              Occurs(missing_crate(s), edge_violations) =
                  IF s \in DOMAIN metadata.packages THEN 0 ELSE rules_of(s)
        /\ \A s \in Crates \ DOMAIN metadata.packages : \A t \in Crates :
              /\ Occurs(forbidden_edge(s, t), edge_violations) = 0
              /\ Occurs(missing_edge(s, t), edge_violations) = 0
        /\ \A s \in DOMAIN metadata.packages :
              /\ \A t \in targets_of(FORBIDDEN_CRATE_EDGES, s)
                        \cap metadata.packages[s] :
                    forbidden_edge(s, t) \in Range(edge_violations)
              /\ \A t \in targets_of(REQUIRED_CRATE_EDGES, s)
                        \ metadata.packages[s] :
                    missing_edge(s, t) \in Range(edge_violations)

C4_Witness ==
    /\ EdgesChecked
    /\ "ito-domain" \notin DOMAIN metadata.packages
    /\ Occurs(missing_crate("ito-domain"), edge_violations) = 1
    /\ forbidden_edge("ito-cli", "ito-domain") \in Range(edge_violations)
    /\ missing_edge("ito-web", "ito-core") \in Range(edge_violations)

\* the crates the two tables name, as a source or as a target
NamedCrates ==
    {FORBIDDEN_CRATE_EDGES[i][1] : i \in 1..Len(FORBIDDEN_CRATE_EDGES)}
    \cup {REQUIRED_CRATE_EDGES[i][1] : i \in 1..Len(REQUIRED_CRATE_EDGES)}
    \cup UNION {FORBIDDEN_CRATE_EDGES[i][2] : i \in 1..Len(FORBIDDEN_CRATE_EDGES)}
    \cup UNION {REQUIRED_CRATE_EDGES[i][2] : i \in 1..Len(REQUIRED_CRATE_EDGES)}

\* C5: every crate a rule names, as its source or as a target, that is not
\* in the graph has a "missing workspace crate" violation of its own in the
\* list, which is none of the edge violations.
C5_NamedCrateMissing ==
    EdgesChecked =>
        \A c \in NamedCrates \ DOMAIN metadata.packages :
            \E i \in 1..Len(edge_violations) :
                /\ edge_violations[i] = missing_crate(c)
                /\ edge_violations[i].kind \notin
                      {"forbidden dependency edge",
                       "missing required dependency edge"}

C5_Witness ==
    /\ EdgesChecked
    /\ "ito-web" \notin DOMAIN metadata.packages
    /\ "ito-domain" \in DOMAIN metadata.packages
    /\ "ito-web" \in metadata.packages["ito-domain"]
    /\ forbidden_edge("ito-domain", "ito-web") \in Range(edge_violations)
    /\ missing_crate("ito-web") \in Range(edge_violations)

\* the violations of the list about the symbol and the file
about(violations, symbol, rel_path) ==
    {i \in 1..Len(violations) :
        violations[i].symbol = symbol /\ violations[i].rel_path = rel_path}

\* the list holds, for every symbol of the table and file of the tree, one
\* violation if the file's count is above its allowance, of the kind its
\* baseline entry decides, and none otherwise
BaselineExact(violations, table, tree, Count(_, _)) ==
    \A k \in 1..Len(table) : \A rel_path \in DOMAIN tree :
        LET symbol == table[k][1]
            baseline == table[k][2]
            listed == rel_path \in DOMAIN baseline
            allowed == IF listed THEN baseline[rel_path] ELSE 0
            count == Count(tree[rel_path], symbol)
            found == about(violations, symbol, rel_path)
        IN IF count > allowed
           THEN /\ Cardinality(found) = 1
                /\ \A i \in found :
                      violations[i] =
                          IF listed
                          THEN increased_usage(symbol, rel_path, count, allowed)
                          ELSE new_usage(symbol, rel_path, count)
           ELSE found = {}

\* C6: for every banned token and scanned file, the scan gives exactly one
\* violation when the file's count is above its baseline allowance (0 when
\* the file has no entry) and none when it is at or below it; the violation
\* is "new usage" without an entry, "increased usage (count > baseline n)"
\* with an entry that is exceeded.
C6_BaselineMonotone ==
    Complete =>
        /\ BaselineExact(api_violations, DOMAIN_API_BASELINE, domain_src,
                         domain_count)
        /\ BaselineExact(core_api_violations, CORE_API_BASELINE, core_src,
                         core_count)

C6_Witness ==
    /\ Complete
    /\ \E i \in 1..Len(core_api_violations) :
          /\ core_api_violations[i].kind = "increased usage"
          /\ core_api_violations[i].rel_path = rel(CORE_SRC, HARNESS_TYPES_RS)
          /\ core_api_violations[i].count = core_api_violations[i].allowed + 1
    /\ \E i \in 1..Len(core_api_violations) :
          /\ core_api_violations[i].kind = "new usage"
          /\ core_api_violations[i].rel_path = rel(CORE_SRC, HARNESS_RS)

\* the violations of one symbol stand in the str order of their paths
PathsAscend(violations) ==
    \A i, j \in 1..Len(violations) :
        i < j /\ violations[i].symbol = violations[j].symbol =>
            str_lt(violations[i].rel_path, violations[j].rel_path)

\* C8: the scan of an unchanged tree gives the same list again, whatever the
\* order in which the filesystem yields the files, and within a banned token
\* the violations stand in lexicographic order of the relative paths.
C8_StableOrder ==
    Complete =>
        /\ \A listing \in Listings(domain_src) :
              check_domain_api_bans(domain_src, listing) = api_violations
        /\ \A listing \in Listings(core_src) :
              check_core_api_bans(core_src, listing) = core_api_violations
        /\ PathsAscend(api_violations)
        /\ PathsAscend(core_api_violations)

C8_Witness ==
    /\ Complete
    /\ \E i, j \in 1..Len(api_violations) :
          /\ i < j
          /\ api_violations[i].symbol = api_violations[j].symbol
          /\ api_violations[i].rel_path = rel(DOMAIN_SRC, ERRORS_RS)
          /\ api_violations[j].rel_path = rel(DOMAIN_SRC, ERRORS_MOD_RS)
          /\ path_lt(api_violations[j].rel_path, api_violations[i].rel_path)

NoWebChecked ==
    /\ metadata.kind = "ok"
    /\ pc \notin {"check_crate_edges", "check_domain_api_bans",
                  "check_core_api_bans",
                  "check_cli_no_default_features_web_decoupling"}

\* a line of the output begins with "ito-web v"
WebLine ==
    \E line \in Range(splitlines(cargo_tree.stdout)) :
        startswith(line, ITO_WEB_V)

\* C9: the isolation check gives at most one violation: exactly one when the
\* command exits non-zero, exactly one when it exits zero and a line of its
\* output begins with "ito-web v", none otherwise; a non-zero exit fails the
\* group and the run goes on to its report.
C9_SingleViolation ==
    /\ NoWebChecked =>
          /\ Len(no_web_violations) <= 1
          /\ cargo_tree.kind = "CalledProcessError" =>
                /\ Len(no_web_violations) = 1
                /\ no_web_violations[1].kind = unable_to_verify(<<>>).kind
          /\ cargo_tree.kind = "ok" =>
                no_web_violations = IF WebLine THEN <<still_pulls>> ELSE <<>>
    /\ Complete /\ cargo_tree.kind = "CalledProcessError" =>
          /\ exit_status = 1
          /\ stderr = <<>>
          /\ Len(GroupLines) = 4
          /\ GroupLines[4] = [tag |-> "FAIL", group |-> GROUP_NO_WEB]

C9_Witness ==
    /\ Complete
    /\ cargo_tree.kind = "CalledProcessError"
    /\ Len(no_web_violations) = 1
    /\ edge_violations = <<>>
    /\ GroupLines[4].tag = "FAIL"

\* the occurrences on the lines chosen by Keep, line by line
line_sum(text, symbol, Keep(_)) ==
    LET lines == SelectSeq(splitlines(text), Keep)
        sum[k \in 0..Len(lines)] ==
            IF k = 0 THEN 0
            ELSE sum[k - 1] + count_occurrences(lines[k], symbol)
    IN sum[Len(lines)]

is_doc_line(line) == startswith(strip(line), <<"/", "/", "/">>)
is_code_line(line) == ~is_doc_line(line)
any_line(line) == TRUE

\* the file uses the symbol, and on doc comment lines only
doc_only(text, symbol) ==
    /\ line_sum(text, symbol, is_doc_line) > 0
    /\ line_sum(text, symbol, is_code_line) = 0

\* C10: in the ito-core scan the occurrences on lines whose stripped content
\* begins with "///" are not counted, so a file using a symbol on such lines
\* only has no violation; in the ito-domain scan they are counted and give a
\* violation.
C10_DocComments ==
    Complete =>
        /\ \A i \in 1..Len(core_api_violations) :
              core_api_violations[i].count =
                  line_sum(core_src[core_api_violations[i].rel_path],
                           core_api_violations[i].symbol, is_code_line)
        /\ \A k \in 1..Len(CORE_API_BASELINE) : \A rel_path \in DOMAIN core_src :
              doc_only(core_src[rel_path], CORE_API_BASELINE[k][1]) =>
                  about(core_api_violations, CORE_API_BASELINE[k][1], rel_path) = {}
        /\ \A i \in 1..Len(api_violations) :
              api_violations[i].count =
                  line_sum(domain_src[api_violations[i].rel_path],
                           api_violations[i].symbol, any_line)
        /\ \A k \in 1..Len(DOMAIN_API_BASELINE) : \A rel_path \in DOMAIN domain_src :
              /\ doc_only(domain_src[rel_path], DOMAIN_API_BASELINE[k][1])
              /\ rel_path \notin DOMAIN DOMAIN_API_BASELINE[k][2]
              => about(api_violations, DOMAIN_API_BASELINE[k][1], rel_path) # {}

C10_Witness ==
    /\ Complete
    /\ \E rel_path \in DOMAIN core_src :
          /\ doc_only(core_src[rel_path], SYM_MIETTE)
          /\ about(core_api_violations, SYM_MIETTE, rel_path) = {}
    /\ \E rel_path \in DOMAIN domain_src :
          /\ doc_only(domain_src[rel_path], SYM_STD_FS)
          /\ about(api_violations, SYM_STD_FS, rel_path) # {}

\* C7: when the metadata provider fails (binary missing, non-zero exit or
\* malformed output) the run ends at once with status 1 and the dedicated
\* message, and no group is evaluated or reported.
C7_FatalSetupFailure ==
    pc = "exited" /\ metadata.kind # "ok" =>
        /\ exit_status = 1
        /\ [tag |-> "FAIL: unable to run cargo metadata"] \in Range(stderr)
        /\ stdout = <<>>
        /\ edge_violations = <<>> /\ api_violations = <<>>
        /\ core_api_violations = <<>> /\ no_web_violations = <<>>

\* a line of a group's report: its OK or FAIL line, or one of its violations
is_group_line(line) == line.tag \in {"OK", "FAIL", "  - "}

\* the lines printed after the last line of the groups' reports
FinalLines ==
    LET ends == {i \in 1..Len(stdout) : is_group_line(stdout[i])}
        last == IF ends = {} THEN 0
                ELSE CHOOSE i \in ends : \A j \in ends : j <= i
    IN SubSeq(stdout, last + 1, Len(stdout))

\* C11: every complete run prints, after the four OK/FAIL lines of the
\* groups, one final line stating the overall outcome, when it passes
\* (status 0) and when it fails (status 1).
C11_FinalLine ==
    Complete =>
        /\ Len(GroupLines) = 4
        /\ Len(FinalLines) = 1

\* a failed complete run whose output ends with the last group's report
C11_Witness ==
    /\ Complete
    /\ exit_status = 1
    /\ Len(GroupLines) = 4
    /\ FinalLines = <<>>
    /\ is_group_line(stdout[Len(stdout)])

====
